---- MODULE Spec2Model ----
(***************************************************************************)
(* Little Lemon API: the request handlers of LittleLemonAPI/views.py and   *)
(* the serializers of LittleLemonAPI/serializers.py as a state machine     *)
(* over the tables of the data store.  One action is one request handled   *)
(* from authentication to response; `last` records the request handled     *)
(* last and the status code of its response.                               *)
(***************************************************************************)
EXTENDS Integers, Sequences, FiniteSets

\* ---------------------------------------------------------------- bounds
MaxMenuId == 2      \* menu items that can be created
MaxCartId == 2      \* cart rows that can be created
MaxOrderId == 2     \* orders that can be created
MaxLifecycleOrders == 1  \* orders that can be created while the roles change
MaxQty == 2         \* largest quantity a request carries
MaxPrice == 6       \* largest menu price a request carries

\* ------------------------------------------------------ program constants
MinPrice == 5       \* MenuItemSerializer.validate_price
MinQuantity == 1    \* CartItemSerializer.validate_quantity

Users == {"u1", "u2", "u3"}
Staff == {"u1"}                     \* users with is_staff (IsAdminUser)
NoUser == "nobody"                  \* a username / user id that resolves to no row
Null == "null"                      \* a null foreign key

MenuIds == 1..MaxMenuId
CartIds == 1..MaxCartId
OrderIds == 1..MaxOrderId
Prices == (MinPrice - 1)..MaxPrice
Quantities == (MinQuantity - 1)..MaxQty

VARIABLES
    managers,       \* user_set of Group 'Manager'
    crew,           \* user_set of Group 'Delivery crew'
    menu,           \* MenuItem rows: id -> [price, featured]
    nextMenuId,
    cart,           \* CartItem rows: id -> [user, menu_item, quantity, unit_price, price]
    nextCartId,
    orders,         \* Order rows: id -> [user, delivery_crew, status, total_price]
    nextOrderId,
    orderItems,     \* OrderItem rows in creation order
    txn,            \* the order placement in progress (SpecConc)
    last            \* the request handled last and its response code

vars == <<managers, crew, menu, nextMenuId, cart, nextCartId, orders, nextOrderId,
          orderItems, txn, last>>

roleVars == <<managers, crew>>
menuVars == <<menu, nextMenuId>>
cartVars == <<cart, nextCartId>>
orderVars == <<orders, nextOrderId, orderItems>>

\* ---------------------------------------------------------------- helpers
RECURSIVE SumSet(_, _)
SumSet(f, S) ==
    IF S = {} THEN 0
    ELSE LET x == CHOOSE y \in S : TRUE IN f[x].price + SumSet(f, S \ {x})

Idle == [pc |-> "idle", user |-> Null, fields |-> {}, st |-> FALSE, dc |-> Null,
         total |-> 0, order |-> 0, rows |-> <<>>]

Response(op, actor, pk, code, fields) ==
    [op |-> op, actor |-> actor, pk |-> pk, code |-> code, fields |-> fields]

IsManager(user) == user \in managers
IsDeliveryCrew(user) == user \in crew

Init ==
    /\ managers = {}
    /\ crew = {}
    /\ menu = <<>>
    /\ nextMenuId = 1
    /\ cart = <<>>
    /\ nextCartId = 1
    /\ orders = <<>>
    /\ nextOrderId = 1
    /\ orderItems = <<>>
    /\ txn = Idle
    /\ last = Response("none", Null, 0, 0, {})

\* ------------------------------------------------------------ admin views
\* POST groups/manager/users/
AssignUserToManager(actor, username) ==
    /\ UNCHANGED <<crew, menuVars, cartVars, orderVars, txn>>
    /\ IF actor \notin Staff
       THEN /\ last' = Response("assign_manager", actor, 0, 403, {})
            /\ UNCHANGED managers
       ELSE IF username \notin Users
       THEN /\ last' = Response("assign_manager", actor, 0, 404, {})
            /\ UNCHANGED managers
       ELSE /\ managers' = managers \cup {username}
            /\ last' = Response("assign_manager", actor, 0, 200, {})

\* POST groups/delivery-crew/users/
AssignDeliveryCrew(actor, username) ==
    /\ UNCHANGED <<managers, menuVars, cartVars, orderVars, txn>>
    /\ IF ~IsManager(actor)
       THEN /\ last' = Response("assign_crew", actor, 0, 403, {})
            /\ UNCHANGED crew
       ELSE IF username \notin Users
       THEN /\ last' = Response("assign_crew", actor, 0, 404, {})
            /\ UNCHANGED crew
       ELSE /\ crew' = crew \cup {username}
            /\ last' = Response("assign_crew", actor, 0, 200, {})

\* ------------------------------------------------------- menu item views
validate_price(value) == value >= MinPrice

\* POST menu-items/
MenuItemCreate(actor, price, featured) ==
    /\ nextMenuId <= MaxMenuId
    /\ UNCHANGED <<roleVars, cartVars, orderVars, txn>>
    /\ IF actor \notin Staff
       THEN /\ last' = Response("menu_create", actor, 0, 403, {})
            /\ UNCHANGED menuVars
       ELSE IF ~validate_price(price)
       THEN /\ last' = Response("menu_create", actor, 0, 400, {})
            /\ UNCHANGED menuVars
       ELSE /\ menu' = Append(menu, [price |-> price, featured |-> featured])
            /\ nextMenuId' = nextMenuId + 1
            /\ last' = Response("menu_create", actor, nextMenuId, 201, {})

\* PATCH menu-items/<pk>/ with a price
MenuItemUpdate(actor, pk, price) ==
    /\ UNCHANGED <<roleVars, nextMenuId, cartVars, orderVars, txn>>
    /\ IF pk \notin DOMAIN menu
       THEN /\ last' = Response("menu_update", actor, pk, 404, {})
            /\ UNCHANGED menu
       ELSE IF ~validate_price(price)
       THEN /\ last' = Response("menu_update", actor, pk, 400, {})
            /\ UNCHANGED menu
       ELSE IF IsManager(actor)
       THEN /\ menu' = [menu EXCEPT ![pk].price = price]
            /\ last' = Response("menu_update", actor, pk, 200, {})
       ELSE /\ last' = Response("menu_update", actor, pk, 500, {})
            /\ UNCHANGED menu

\* mutant: the featured flags are not cleared before the new one is set
ClearFeatured_Skipped(m) == m

\* MenuItem.objects.filter(featured=True).update(featured=False)
ClearFeatured(m) == [id \in DOMAIN m |-> [m[id] EXCEPT !.featured = FALSE]]

\* PATCH menu-items/<pk>/item-of-day/
UpdateItemOfDay(actor, pk) ==
    /\ UNCHANGED <<roleVars, nextMenuId, cartVars, orderVars, txn>>
    /\ IF ~IsManager(actor)
       THEN /\ last' = Response("item_of_day", actor, pk, 403, {})
            /\ UNCHANGED menu
       ELSE LET cleared == ClearFeatured(menu) IN
            IF pk \notin DOMAIN menu
            THEN /\ menu' = cleared
                 /\ last' = Response("item_of_day", actor, pk, 404, {})
            ELSE /\ menu' = [cleared EXCEPT ![pk].featured = TRUE]
                 /\ last' = Response("item_of_day", actor, pk, 200, {})

\* ------------------------------------------------------------- cart views
validate_quantity(value) == value >= MinQuantity

\* CartItem.objects.filter(user=self.request.user)
CartItemQueryset(c, user) == {id \in DOMAIN c : c[id].user = user}

Insert(f, id, row) == [i \in DOMAIN f \cup {id} |-> IF i = id THEN row ELSE f[i]]
Delete(f, ids) == [i \in DOMAIN f \ ids |-> f[i]]

\* CartItemSerializer.create
CartItemRow(user, menu_item, quantity) ==
    LET unit_price == menu[menu_item].price
        price == unit_price * quantity
    IN [user |-> user, menu_item |-> menu_item, quantity |-> quantity,
        unit_price |-> unit_price, price |-> price]

\* mutant: the update stores the new quantity without recomputing the line price
CartItemUpdated_StalePrice(instance, hasQuantity, quantity) ==
    LET q == IF hasQuantity THEN quantity ELSE instance.quantity
    IN [instance EXCEPT !.quantity = q, !.unit_price = menu[instance.menu_item].price]

\* CartItemSerializer.update; hasQuantity is 'quantity' in validated_data
CartItemUpdated(instance, hasQuantity, quantity) ==
    LET q == IF hasQuantity THEN quantity ELSE instance.quantity
        unit_price == menu[instance.menu_item].price
    IN [instance EXCEPT !.quantity = q, !.unit_price = unit_price,
                        !.price = unit_price * q]

\* POST cart/menu-items/
CartItemCreate(actor, menu_item, quantity) ==
    /\ nextCartId <= MaxCartId
    /\ UNCHANGED <<roleVars, menuVars, orderVars, txn>>
    /\ IF menu_item \notin DOMAIN menu \/ ~validate_quantity(quantity)
       THEN /\ last' = Response("cart_create", actor, 0, 400, {})
            /\ UNCHANGED cartVars
       ELSE /\ cart' = Insert(cart, nextCartId, CartItemRow(actor, menu_item, quantity))
            /\ nextCartId' = nextCartId + 1
            /\ last' = Response("cart_create", actor, nextCartId, 201, {})

\* PUT/PATCH cart/menu-items/<pk>/
CartItemUpdate(actor, pk, hasQuantity, quantity) ==
    /\ UNCHANGED <<roleVars, menuVars, nextCartId, orderVars, txn>>
    /\ IF pk \notin CartItemQueryset(cart, actor)
       THEN /\ last' = Response("cart_update", actor, pk, 404, {})
            /\ UNCHANGED cart
       ELSE IF hasQuantity /\ ~validate_quantity(quantity)
       THEN /\ last' = Response("cart_update", actor, pk, 400, {})
            /\ UNCHANGED cart
       ELSE /\ cart' = [cart EXCEPT ![pk] = CartItemUpdated(cart[pk], hasQuantity, quantity)]
            /\ last' = Response("cart_update", actor, pk, 200, {})

\* DELETE cart/menu-items/<pk>/
CartItemDestroy(actor, pk) ==
    /\ UNCHANGED <<roleVars, menuVars, nextCartId, orderVars, txn>>
    /\ IF pk \notin CartItemQueryset(cart, actor)
       THEN /\ last' = Response("cart_destroy", actor, pk, 404, {})
            /\ UNCHANGED cart
       ELSE /\ cart' = Delete(cart, {pk})
            /\ last' = Response("cart_destroy", actor, pk, 204, {})

\* ------------------------------------------------------------ order views
\* Meta.read_only_fields of OrderSerializer, among the fields a request can carry
OrderReadOnlyFields == {"total_price"}
OrderWritableFields == {"status", "delivery_crew"}

\* serializer.validated_data: the request's fields without the read-only ones
ValidatedData(data) == [data EXCEPT !.fields = data.fields \ OrderReadOnlyFields]

\* validated_data.get(field, default)
Get(validated_data, field, default) ==
    IF field \in validated_data.fields THEN validated_data[field] ELSE default

\* the bodies of the order requests the model sends
OrderData(fieldSets) ==
    {[fields |-> F, status |-> s, delivery_crew |-> d, total_price |-> 0] :
        F \in fieldSets, s \in BOOLEAN, d \in Users \cup {Null}}
OrderRequests(fieldSets) ==
    {data \in OrderData(fieldSets) :
        /\ "status" \notin data.fields => data.status = FALSE
        /\ "delivery_crew" \notin data.fields => data.delivery_crew = Null}

\* OrderSerializer.create, validated_data already holding the save() keywords
OrderCreated(validated_data) ==
    [user |-> validated_data.user,
     delivery_crew |-> Get(validated_data, "delivery_crew", Null),
     status |-> Get(validated_data, "status", FALSE),
     total_price |-> Get(validated_data, "total_price", 0)]

\* serializer.save(user=..., total_price=...): the keywords join validated_data
SaveKwargs(validated_data, user, total_price) ==
    [fields |-> validated_data.fields \cup {"user", "total_price"},
     status |-> validated_data.status,
     delivery_crew |-> validated_data.delivery_crew,
     user |-> user,
     total_price |-> total_price]

\* OrderSerializer.update
OrderUpdated(instance, validated_data) ==
    [instance EXCEPT
        !.status = Get(validated_data, "status", instance.status),
        !.delivery_crew = Get(validated_data, "delivery_crew", instance.delivery_crew),
        !.total_price = Get(validated_data, "total_price", instance.total_price)]

\* mutant: the aggregate sums unit_price instead of price
RECURSIVE CartTotal_UnitPrices(_, _)
CartTotal_UnitPrices(c, ids) ==
    IF ids = {} THEN 0
    ELSE LET x == CHOOSE y \in ids : TRUE
         IN c[x].unit_price + CartTotal_UnitPrices(c, ids \ {x})

\* cart_items.aggregate(total=Sum('price'))['total']
CartTotal(c, ids) == SumSet(c, ids)

\* the OrderItem created for one CartItem in the loop of perform_create
OrderItemRow(order, cart_item) ==
    [order |-> order, menu_item |-> cart_item.menu_item, quantity |-> cart_item.quantity,
     unit_price |-> cart_item.unit_price, price |-> cart_item.price]

\* the rows of a queryset in primary key order
RECURSIVE Rows(_, _)
Rows(c, ids) ==
    IF ids = {} THEN <<>>
    ELSE LET id == CHOOSE i \in ids : \A j \in ids : i <= j
         IN <<c[id]>> \o Rows(c, ids \ {id})

RECURSIVE OrderItemRows(_, _)
OrderItemRows(order, rows) ==
    IF rows = <<>> THEN <<>>
    ELSE <<OrderItemRow(order, Head(rows))>> \o OrderItemRows(order, Tail(rows))

\* POST orders/ : OrderListCreateView.perform_create, one request at a time
PlaceOrder(actor, data) ==
    /\ nextOrderId <= MaxOrderId
    /\ UNCHANGED <<roleVars, menuVars, nextCartId, txn>>
    /\ LET cart_items == CartItemQueryset(cart, actor) IN
       IF cart_items = {}
       THEN \* the Response returned by perform_create is dropped by CreateModelMixin.create
            /\ last' = Response("order_create", actor, 0, 201, data.fields)
            /\ UNCHANGED <<cart, orderVars>>
       ELSE LET total_price == CartTotal(cart, cart_items)
                order == OrderCreated(SaveKwargs(ValidatedData(data), actor, total_price))
            IN /\ orders' = Insert(orders, nextOrderId, order)
               /\ nextOrderId' = nextOrderId + 1
               /\ orderItems' = orderItems \o OrderItemRows(nextOrderId, Rows(cart, cart_items))
               /\ cart' = Delete(cart, CartItemQueryset(cart, actor))
               /\ last' = Response("order_create", actor, nextOrderId, 201, data.fields)

\* mutant: the last branch of get_queryset returns every order
OrderQueryset_AllOrders(o, user) ==
    IF IsManager(user) THEN DOMAIN o
    ELSE IF IsDeliveryCrew(user) THEN {id \in DOMAIN o : o[id].delivery_crew = user}
    ELSE DOMAIN o

\* get_queryset of OrderListCreateView and OrderRetrieveUpdateDestroyView
OrderQueryset(o, user) ==
    IF IsManager(user) THEN DOMAIN o
    ELSE IF IsDeliveryCrew(user) THEN {id \in DOMAIN o : o[id].delivery_crew = user}
    ELSE {id \in DOMAIN o : o[id].user = user}

\* OrderRetrieveUpdateDestroyView.perform_update: does the serializer get saved
PerformUpdateSaves(user, validated_data) ==
    IF IsDeliveryCrew(user)
    THEN "status" \in validated_data.fields /\ Cardinality(validated_data.fields) = 1
    ELSE IsManager(user)

\* PUT/PATCH orders/<pk>/
OrderUpdate(actor, pk, data) ==
    /\ UNCHANGED <<roleVars, menuVars, cartVars, nextOrderId, orderItems, txn>>
    /\ IF pk \notin OrderQueryset(orders, actor)
       THEN /\ last' = Response("order_update", actor, pk, 404, data.fields)
            /\ UNCHANGED orders
       ELSE \* the Response returned by perform_update is dropped by UpdateModelMixin.update
            /\ last' = Response("order_update", actor, pk, 200, data.fields)
            /\ IF PerformUpdateSaves(actor, ValidatedData(data))
               THEN orders' = [orders EXCEPT ![pk] = OrderUpdated(orders[pk], ValidatedData(data))]
               ELSE UNCHANGED orders

\* on_delete of OrderItem.order
OrderItemsAfterDelete(items, pk) == SelectSeq(items, LAMBDA r : r.order # pk)

\* DELETE orders/<pk>/ : DestroyModelMixin.destroy, perform_destroy not overridden
OrderDestroy(actor, pk) ==
    /\ UNCHANGED <<roleVars, menuVars, cartVars, nextOrderId, txn>>
    /\ IF pk \notin OrderQueryset(orders, actor)
       THEN /\ last' = Response("order_destroy", actor, pk, 404, {})
            /\ UNCHANGED <<orders, orderItems>>
       ELSE /\ orders' = Delete(orders, {pk})
            /\ orderItems' = OrderItemsAfterDelete(orderItems, pk)
            /\ last' = Response("order_destroy", actor, pk, 204, {})

\* PATCH orders/<pk>/assign-delivery/
AssignOrderToDeliveryCrew(actor, pk, delivery_crew_id) ==
    /\ UNCHANGED <<roleVars, menuVars, cartVars, nextOrderId, orderItems, txn>>
    /\ IF ~IsManager(actor)
       THEN /\ last' = Response("order_assign", actor, pk, 403, {})
            /\ UNCHANGED orders
       ELSE IF pk \notin DOMAIN orders \/ delivery_crew_id \notin Users
       THEN /\ last' = Response("order_assign", actor, pk, 404, {})
            /\ UNCHANGED orders
       ELSE IF ~IsDeliveryCrew(delivery_crew_id)
       THEN /\ last' = Response("order_assign", actor, pk, 400, {})
            /\ UNCHANGED orders
       ELSE /\ orders' = [orders EXCEPT ![pk].delivery_crew = delivery_crew_id]
            /\ last' = Response("order_assign", actor, pk, 200, {})

\* mutant: get_queryset does not filter on delivery_crew
DeliveredQueryset_Unfiltered(o, user) == DOMAIN o

\* MarkOrderDeliveredView.get_queryset
DeliveredQueryset(o, user) == {id \in DOMAIN o : o[id].delivery_crew = user}

\* PATCH orders/<pk>/delivered/
MarkOrderDelivered(actor, pk) ==
    /\ UNCHANGED <<roleVars, menuVars, cartVars, nextOrderId, orderItems, txn>>
    /\ IF ~IsDeliveryCrew(actor)
       THEN /\ last' = Response("order_delivered", actor, pk, 403, {})
            /\ UNCHANGED orders
       ELSE IF pk \notin DeliveredQueryset(orders, actor)
       THEN /\ last' = Response("order_delivered", actor, pk, 404, {})
            /\ UNCHANGED orders
       ELSE /\ orders' = [orders EXCEPT ![pk].status = TRUE]
            /\ last' = Response("order_delivered", actor, pk, 200, {})

\* ------------------------------------------------------- specifications
UserNames == Users \cup {NoUser}
AllFieldSets == SUBSET (OrderWritableFields \cup OrderReadOnlyFields)

\* every request of the API, one at a time
Next ==
    \/ \E actor \in Users, username \in UserNames : AssignUserToManager(actor, username)
    \/ \E actor \in Users, username \in UserNames : AssignDeliveryCrew(actor, username)
    \/ \E actor \in Users, price \in Prices, featured \in BOOLEAN : MenuItemCreate(actor, price, featured)
    \/ \E actor \in Users, pk \in MenuIds, price \in Prices : MenuItemUpdate(actor, pk, price)
    \/ \E actor \in Users, pk \in MenuIds : UpdateItemOfDay(actor, pk)
    \/ \E actor \in Users, menu_item \in MenuIds, quantity \in Quantities : CartItemCreate(actor, menu_item, quantity)
    \/ \E actor \in Users, pk \in CartIds, hasQuantity \in BOOLEAN, quantity \in Quantities : CartItemUpdate(actor, pk, hasQuantity, quantity)
    \/ \E actor \in Users, pk \in CartIds : CartItemDestroy(actor, pk)
    \/ \E actor \in Users, data \in OrderRequests(AllFieldSets) : PlaceOrder(actor, data)
    \/ \E actor \in Users, pk \in OrderIds, data \in OrderRequests(AllFieldSets) : OrderUpdate(actor, pk, data)
    \/ \E actor \in Users, pk \in OrderIds : OrderDestroy(actor, pk)
    \/ \E actor \in Users, pk \in OrderIds, id \in UserNames : AssignOrderToDeliveryCrew(actor, pk, id)
    \/ \E actor \in Users, pk \in OrderIds : MarkOrderDelivered(actor, pk)

Spec == Init /\ [][Next]_vars

\* the menu requests that reach the featured flag through the item-of-day endpoint:
\* menu items are created unfeatured and only item-of-day updates write the flag
NextItemOfDay ==
    \/ \E actor \in Users, username \in UserNames : AssignUserToManager(actor, username)
    \/ \E actor \in Users, price \in Prices : MenuItemCreate(actor, price, FALSE)
    \/ \E actor \in Users, pk \in MenuIds : UpdateItemOfDay(actor, pk)

SpecItemOfDay == Init /\ [][NextItemOfDay]_vars

\* cart, menu price and order placement requests
NextPlacement ==
    \/ \E actor \in Staff, username \in Staff : AssignUserToManager(actor, username)
    \/ \E actor \in Users, price \in Prices : MenuItemCreate(actor, price, FALSE)
    \/ \E actor \in Users, pk \in MenuIds, price \in Prices : MenuItemUpdate(actor, pk, price)
    \/ \E actor \in Users, menu_item \in MenuIds, quantity \in Quantities : CartItemCreate(actor, menu_item, quantity)
    \/ \E actor \in Users, pk \in CartIds, hasQuantity \in BOOLEAN, quantity \in Quantities : CartItemUpdate(actor, pk, hasQuantity, quantity)
    \/ \E actor \in Users, pk \in CartIds : CartItemDestroy(actor, pk)
    \/ \E actor \in Users, data \in OrderRequests({{}}) : PlaceOrder(actor, data)

SpecPlacement == Init /\ [][NextPlacement]_vars

\* the store once the administrator has created one menu item and named a manager
InitLifecycle ==
    /\ managers = {"u1"}
    /\ crew = {}
    /\ menu = <<[price |-> MinPrice, featured |-> FALSE]>>
    /\ nextMenuId = 2
    /\ cart = <<>>
    /\ nextCartId = 1
    /\ orders = <<>>
    /\ nextOrderId = 1
    /\ orderItems = <<>>
    /\ txn = Idle
    /\ last = Response("menu_create", "u1", 1, 201, {})

\* role assignment and the order requests
NextLifecycle ==
    \/ \E actor \in Users, username \in UserNames : AssignDeliveryCrew(actor, username)
    \/ \E actor \in Users : CartItemCreate(actor, 1, MinQuantity)
    \/ \E actor \in Users, data \in OrderRequests(SUBSET OrderWritableFields) :
          nextOrderId <= MaxLifecycleOrders /\ PlaceOrder(actor, data)
    \/ \E actor \in Users, pk \in OrderIds, data \in OrderRequests(AllFieldSets) : OrderUpdate(actor, pk, data)
    \/ \E actor \in Users, pk \in OrderIds : OrderDestroy(actor, pk)
    \/ \E actor \in Users, pk \in OrderIds, id \in UserNames : AssignOrderToDeliveryCrew(actor, pk, id)
    \/ \E actor \in Users, pk \in OrderIds : MarkOrderDelivered(actor, pk)

SpecLifecycle == InitLifecycle /\ [][NextLifecycle]_vars

\* the store once a manager has also named one delivery crew member
InitDestroy ==
    /\ managers = {"u1"}
    /\ crew = {"u2"}
    /\ menu = <<[price |-> MinPrice, featured |-> FALSE]>>
    /\ nextMenuId = 2
    /\ cart = <<>>
    /\ nextCartId = 1
    /\ orders = <<>>
    /\ nextOrderId = 1
    /\ orderItems = <<>>
    /\ txn = Idle
    /\ last = Response("assign_crew", "u1", 0, 200, {})

\* the order requests under fixed roles
NextDestroy ==
    \/ \E actor \in Users : CartItemCreate(actor, 1, MinQuantity)
    \/ \E actor \in Users, data \in OrderRequests(SUBSET OrderWritableFields) : PlaceOrder(actor, data)
    \/ \E actor \in Users, pk \in OrderIds, data \in OrderRequests(AllFieldSets) : OrderUpdate(actor, pk, data)
    \/ \E actor \in Users, pk \in OrderIds : OrderDestroy(actor, pk)
    \/ \E actor \in Users, pk \in OrderIds, id \in UserNames : AssignOrderToDeliveryCrew(actor, pk, id)
    \/ \E actor \in Users, pk \in OrderIds : MarkOrderDelivered(actor, pk)

SpecDestroy == InitDestroy /\ [][NextDestroy]_vars

\* ------------------------------------ order placement, statement by statement
\* perform_create runs outside any transaction: each query of it is one step,
\* and cart requests are served between the steps

\* cart_items.exists()
PlaceExists(actor, data) ==
    /\ txn.pc = "idle"
    /\ nextOrderId <= MaxOrderId
    /\ UNCHANGED <<roleVars, menuVars, cartVars, orderVars>>
    /\ IF CartItemQueryset(cart, actor) = {}
       THEN /\ last' = Response("order_create", actor, 0, 201, data.fields)
            /\ UNCHANGED txn
       ELSE /\ txn' = [Idle EXCEPT !.pc = "aggregate", !.user = actor, !.fields = data.fields,
                                   !.st = data.status, !.dc = data.delivery_crew]
            /\ UNCHANGED last

\* cart_items.aggregate(total=Sum('price')); Sum over no rows is None, which
\* Order.objects.create cannot store
PlaceAggregate ==
    /\ txn.pc = "aggregate"
    /\ UNCHANGED <<roleVars, menuVars, cartVars, orderVars>>
    /\ LET cart_items == CartItemQueryset(cart, txn.user) IN
       IF cart_items = {}
       THEN /\ txn' = Idle
            /\ last' = Response("order_create", txn.user, 0, 500, txn.fields)
       ELSE /\ txn' = [txn EXCEPT !.pc = "save", !.total = CartTotal(cart, cart_items)]
            /\ UNCHANGED last

\* order = serializer.save(user=self.request.user, total_price=total_price)
PlaceSave ==
    /\ txn.pc = "save"
    /\ UNCHANGED <<roleVars, menuVars, cartVars, orderItems, last>>
    /\ LET data == [fields |-> txn.fields, status |-> txn.st, delivery_crew |-> txn.dc,
                    total_price |-> 0]
       IN orders' = Insert(orders, nextOrderId,
                           OrderCreated(SaveKwargs(ValidatedData(data), txn.user, txn.total)))
    /\ nextOrderId' = nextOrderId + 1
    /\ txn' = [txn EXCEPT !.pc = "fetch", !.order = nextOrderId]

\* for cart_item in cart_items: the queryset is evaluated when the loop starts
PlaceFetch ==
    /\ txn.pc = "fetch"
    /\ UNCHANGED <<roleVars, menuVars, cartVars, orderVars, last>>
    /\ txn' = [txn EXCEPT !.pc = "items",
                          !.rows = Rows(cart, CartItemQueryset(cart, txn.user))]

\* OrderItem.objects.create(...) in the loop body
PlaceItem ==
    /\ txn.pc = "items"
    /\ txn.rows # <<>>
    /\ UNCHANGED <<roleVars, menuVars, cartVars, orders, nextOrderId, last>>
    /\ orderItems' = Append(orderItems, OrderItemRow(txn.order, Head(txn.rows)))
    /\ txn' = [txn EXCEPT !.rows = Tail(txn.rows)]

\* cart_items.delete(): the queryset is evaluated again
PlaceDelete ==
    /\ txn.pc = "items"
    /\ txn.rows = <<>>
    /\ UNCHANGED <<roleVars, menuVars, nextCartId, orderVars>>
    /\ cart' = Delete(cart, CartItemQueryset(cart, txn.user))
    /\ last' = Response("order_create", txn.user, txn.order, 201, txn.fields)
    /\ txn' = Idle

NextConc ==
    \/ \E actor \in Users, quantity \in Quantities : CartItemCreate(actor, 1, quantity)
    \/ \E actor \in Users, pk \in CartIds, hasQuantity \in BOOLEAN, quantity \in Quantities : CartItemUpdate(actor, pk, hasQuantity, quantity)
    \/ \E actor \in Users, pk \in CartIds : CartItemDestroy(actor, pk)
    \/ \E actor \in Users, data \in OrderRequests({{}}) : PlaceExists(actor, data)
    \/ PlaceAggregate
    \/ PlaceSave
    \/ PlaceFetch
    \/ PlaceItem
    \/ PlaceDelete

SpecConc == InitLifecycle /\ [][NextConc]_vars

\* ------------------------------------------------------------- properties
\* what an OrderItem copies from a CartItem
Snapshot(r) == <<r.menu_item, r.quantity, r.unit_price, r.price>>

\* the positions in a sequence of OrderItems of the rows of one order
ItemsOf(items, order) == {i \in 1..Len(items) : items[i].order = order}

RECURSIVE SumItems(_, _)
SumItems(items, S) ==
    IF S = {} THEN 0
    ELSE LET i == CHOOSE j \in S : TRUE IN items[i].price + SumItems(items, S \ {i})

IsPrefix(s, t) == Len(s) <= Len(t) /\ \A i \in 1..Len(s) : s[i] = t[i]

\* the step is the handling of a request of kind op
Handled(op) == last'.op = op

\* C1: a user whose cart holds N >= 1 CartItems places an order: exactly one
\* new Order is created, for that user, with total_price the sum of the line
\* prices of the N CartItems; exactly N OrderItems are created for it, each a
\* verbatim copy (menu_item, quantity, unit_price, price) of one CartItem; the
\* user's cart is empty afterwards; other users' CartItems and the other
\* Orders and OrderItems are unchanged.
C1_PlaceOrderConvertsCart ==
    [][(Handled("order_create") /\ CartItemQueryset(cart, last'.actor) # {}) =>
        LET u == last'.actor
            mine == CartItemQueryset(cart, u)
            created == DOMAIN orders' \ DOMAIN orders
        IN /\ Cardinality(created) = 1
           /\ DOMAIN orders \subseteq DOMAIN orders'
           /\ \A o \in DOMAIN orders : orders'[o] = orders[o]
           /\ \A o \in created :
                /\ orders'[o].user = u
                /\ orders'[o].total_price = SumSet(cart, mine)
                /\ Cardinality(ItemsOf(orderItems', o)) = Cardinality(mine)
                /\ \A id \in mine :
                     Cardinality({j \in mine : Snapshot(cart[j]) = Snapshot(cart[id])})
                       = Cardinality({i \in ItemsOf(orderItems', o) :
                                        Snapshot(orderItems'[i]) = Snapshot(cart[id])})
           /\ IsPrefix(orderItems, orderItems')
           /\ Len(orderItems') = Len(orderItems) + Cardinality(mine)
           /\ CartItemQueryset(cart', u) = {}
           /\ DOMAIN cart' = DOMAIN cart \ mine
           /\ \A id \in DOMAIN cart' : cart'[id] = cart[id]
           /\ last'.code = 201]_vars

\* a placed order with two OrderItems of different line prices
C1_Witness ==
    /\ last.op = "order_create"
    /\ last.pk \in DOMAIN orders
    /\ Cardinality(ItemsOf(orderItems, last.pk)) = 2
    /\ \E i, j \in ItemsOf(orderItems, last.pk) : orderItems[i].price # orderItems[j].price
    /\ CartItemQueryset(cart, last.actor) = {}

\* C2: placing an order when the acting user has no CartItems ends in a
\* validation error (400) and creates no Order and no OrderItem.
C2_EmptyCartIsRejected ==
    [][(Handled("order_create") /\ CartItemQueryset(cart, last'.actor) = {}) =>
        /\ last'.code = 400
        /\ orders' = orders
        /\ orderItems' = orderItems]_vars

\* C3: after any sequence of item-of-day updates at most one MenuItem is
\* featured, and after a successful update the featured item is exactly the
\* one the request named.
Featured(m) == {id \in DOMAIN m : m[id].featured}

C3_AtMostOneFeatured ==
    /\ Cardinality(Featured(menu)) <= 1
    /\ (last.op = "item_of_day" /\ last.code = 200) => Featured(menu) = {last.pk}

\* the second menu item replaced the first as item of the day
C3_Witness ==
    /\ last.op = "item_of_day"
    /\ last.code = 200
    /\ last.pk = 2
    /\ Featured(menu) = {2}
    /\ Len(menu) >= 2

\* C10: an item-of-day update that fails (actor not a Manager, or no such
\* menu item) leaves every featured flag as it was.
C10_FailedItemOfDayChangesNothing ==
    [][(Handled("item_of_day") /\ last'.code # 200) => menu' = menu]_vars

\* C4: an order update by a DeliveryCrew actor, on an order in their
\* queryset, carrying any field other than status is answered 403 and
\* leaves the order unchanged.
C4_CrewUpdateOtherFieldRejected ==
    [][(/\ Handled("order_update")
        /\ IsDeliveryCrew(last'.actor)
        /\ last'.pk \in OrderQueryset(orders, last'.actor)
        /\ last'.fields # {"status"}) =>
            /\ last'.code = 403
            /\ orders' = orders]_vars

\* C5: delivery_crew of an Order is set only by the assign-delivery request
\* of a Manager naming a user who holds the DeliveryCrew role; no other
\* request creates an Order with a delivery_crew or changes delivery_crew.
C5_DeliveryCrewSetOnlyByManagerAssign ==
    [][\A o \in DOMAIN orders' :
        /\ o \notin DOMAIN orders => orders'[o].delivery_crew = Null
        /\ (o \in DOMAIN orders /\ orders'[o].delivery_crew # orders[o].delivery_crew) =>
              /\ Handled("order_assign")
              /\ last'.pk = o
              /\ IsManager(last'.actor)
              /\ IsDeliveryCrew(orders'[o].delivery_crew)]_vars

\* C6: a mark-delivered request by actor C sets the order's status to true
\* exactly when C holds the DeliveryCrew role and the order's delivery_crew is
\* C (200); when C holds the role and the order is assigned to someone else, to
\* nobody, or does not exist, the answer is 404; when C lacks the role the
\* answer is 403; in both failing cases no order changes.
C6_MarkDelivered ==
    [][Handled("order_delivered") =>
        LET c == last'.actor
            pk == last'.pk
            assigned == pk \in DOMAIN orders /\ orders[pk].delivery_crew = c
        IN /\ orderItems' = orderItems
           /\ (c \in crew /\ assigned) =>
                 /\ last'.code = 200
                 /\ orders' = [orders EXCEPT ![pk].status = TRUE]
           /\ (c \in crew /\ ~assigned) => (last'.code = 404 /\ orders' = orders)
           /\ c \notin crew => (last'.code = 403 /\ orders' = orders)]_vars

\* a crew member marked the order assigned to them delivered
C6_Witness ==
    /\ last.op = "order_delivered"
    /\ last.code = 200
    /\ last.pk \in DOMAIN orders
    /\ orders[last.pk].status = TRUE
    /\ orders[last.pk].delivery_crew = last.actor
    /\ last.actor \in crew

\* C7: every CartItem and every OrderItem has price = unit_price * quantity
\* with quantity >= 1, and every Order's total_price is the sum of the line
\* prices of its OrderItems.
C7_LinePricesAndTotals ==
    /\ \A id \in DOMAIN cart :
         /\ cart[id].quantity >= 1
         /\ cart[id].price = cart[id].unit_price * cart[id].quantity
    /\ \A i \in 1..Len(orderItems) :
         /\ orderItems[i].quantity >= 1
         /\ orderItems[i].price = orderItems[i].unit_price * orderItems[i].quantity
    /\ \A o \in DOMAIN orders :
         orders[o].total_price = SumItems(orderItems, ItemsOf(orderItems, o))

\* an order of two lines exists, one of them bought at a price the menu no
\* longer shows
C7_Witness ==
    \E o \in DOMAIN orders :
        /\ Cardinality(ItemsOf(orderItems, o)) = 2
        /\ \E i \in ItemsOf(orderItems, o) :
             /\ orderItems[i].quantity = 2
             /\ orderItems[i].unit_price # menu[orderItems[i].menu_item].price

C9_PlacementAtomic ==
    \A o \in DOMAIN orders :
        orders[o].total_price = SumItems(orderItems, ItemsOf(orderItems, o))
====
